---- MODULE Spec2Model ----
(***************************************************************************)
(* A model of the note editor of notes_app.py: the Tk text widget that     *)
(* holds the document (characters, embedded images, tags), the formatting  *)
(* state, the image store, the tab bookkeeping and the SQLite tables.      *)
(*                                                                         *)
(* Text offsets are 0-based character counts; a Tk index "line.col" is the *)
(* pair <<line, col>>.  A string the code builds or searches character by  *)
(* character (an image id, a marker, a tag name, the buffer) is a sequence *)
(* of one-character strings.                                               *)
(***************************************************************************)
EXTENDS Integers, Sequences, FiniteSets, TLC

(***************************************************************************)
(* Bounds of the model.                                                    *)
(***************************************************************************)
\* the number of handler invocations explored along one run
MaxSteps == 5
\* the number of handler invocations explored in an editing session
MaxEdits == 3
\* the number of handler invocations explored in a run on stored notes
MaxLoads == 4
MaxCalls == 4
\* the longest text (final newline included) an insertion may produce
MaxLen == 12

(***************************************************************************)
(* Python values.                                                          *)
(***************************************************************************)
\* None, as the value of current_note_id / active_tab / a tab's note id
None == -1

Min(a, b) == IF a < b THEN a ELSE b
Max(a, b) == IF a > b THEN a ELSE b

DigitChars == <<"0", "1", "2", "3", "4", "5", "6", "7", "8", "9">>

\* str(n) for a non-negative integer: its decimal digits
RECURSIVE Str(_)
Str(n) ==
    IF n < 10 THEN <<DigitChars[n + 1]>>
    ELSE Str(n \div 10) \o <<DigitChars[(n % 10) + 1]>>

\* str.isdigit(): non-empty and every character a decimal digit
IsDigit(k) ==
    /\ Len(k) > 0
    /\ \A i \in 1..Len(k) : \E d \in 1..10 : DigitChars[d] = k[i]

DigitValue(c) == (CHOOSE d \in 1..10 : DigitChars[d] = c) - 1

\* int(k) for a string of decimal digits
RECURSIVE ParseInt(_)
ParseInt(k) ==
    IF Len(k) = 0 THEN 0
    ELSE 10 * ParseInt(SubSeq(k, 1, Len(k) - 1)) + DigitValue(k[Len(k)])

Whitespace == {" ", "\n", "\t"}

\* content.strip(): the content without leading and trailing whitespace
RECURSIVE Strip(_)
Strip(s) ==
    IF Len(s) = 0 THEN s
    ELSE IF s[1] \in Whitespace THEN Strip(Tail(s))
    ELSE IF s[Len(s)] \in Whitespace THEN Strip(SubSeq(s, 1, Len(s) - 1))
    ELSE s

\* the elements of a finite set of integers in increasing order
RECURSIVE SortedSeq(_)
SortedSeq(S) ==
    IF S = {} THEN <<>>
    ELSE LET m == CHOOSE x \in S : \A y \in S : x <= y
         IN  <<m>> \o SortedSeq(S \ {m})

(***************************************************************************)
(* The Tk text widget.  The buffer is a sequence of items, one per index   *)
(* position: a character or an embedded image, each with the set of tags   *)
(* on it.  The last item is the newline Tk keeps at the end of every text. *)
(***************************************************************************)
\* the item image_create puts into the text; get() does not return it
ImageObj == "<image>"

Item(c, tags) == [ch |-> c, tags |-> tags]

EmptyText == <<Item("\n", {})>>

\* text_area.get(i, j): the characters between two offsets, images left out
RECURSIVE TkGet(_, _, _)
TkGet(buf, i, j) ==
    IF i >= j \/ i >= Len(buf) THEN <<>>
    ELSE (IF buf[i + 1].ch = ImageObj THEN <<>> ELSE <<buf[i + 1].ch>>)
         \o TkGet(buf, i + 1, j)

\* text_area.get(1.0, tk.END)
GetAll(buf) == TkGet(buf, 0, Len(buf))

\* the 1-based positions of the newlines of the buffer
NewlinePos(buf) == {i \in 1..Len(buf) : buf[i].ch = "\n"}

\* the offset just after the k-th newline
AfterNewline(buf, k) ==
    CHOOSE i \in NewlinePos(buf) :
        Cardinality({j \in NewlinePos(buf) : j <= i}) = k

\* text_area.index(offset) / str(index): the "line.col" of an offset
TkIndex(buf, off) ==
    LET before == {i \in NewlinePos(buf) : i <= off}
        start  == IF before = {} THEN 0
                  ELSE CHOOSE i \in before : \A j \in before : j <= i
    IN  <<Cardinality(before) + 1, off - start>>

\* the offset a "line.col" index denotes in the buffer: a line past the
\* last one is the end of the text, a column past the line's end is the
\* line's newline
TkOffset(buf, idx) ==
    LET line == idx[1]
        col  == idx[2]
        n    == Cardinality(NewlinePos(buf))
    IN  IF line < 1 THEN 0
        ELSE IF line > n THEN Len(buf)
        ELSE LET start == IF line = 1 THEN 0 ELSE AfterNewline(buf, line - 1)
                 nl    == AfterNewline(buf, line) - 1
             IN  Min(start + Max(col, 0), nl)

\* an insert whose items take the tags of the item before them
TagsBefore(buf, p) ==
    IF p = 0 THEN {} ELSE buf[p].tags

\* the tags a newly inserted item receives: those on both of its neighbours
Inherited(buf, p) ==
    IF p = 0 THEN {} ELSE buf[p].tags \cap buf[p + 1].tags

\* text_area.insert(p, chars): nothing is ever inserted after the final newline
TkInsert(buf, p, chars) ==
    LET q == Min(p, Len(buf) - 1)
    IN  SubSeq(buf, 1, q)
        \o [i \in 1..Len(chars) |-> Item(chars[i], Inherited(buf, q))]
        \o SubSeq(buf, q + 1, Len(buf))

\* text_area.image_create(p, image=photo)
TkImageCreate(buf, p) ==
    LET q == Min(p, Len(buf) - 1)
    IN  SubSeq(buf, 1, q) \o <<Item(ImageObj, Inherited(buf, q))>>
        \o SubSeq(buf, q + 1, Len(buf))

\* text_area.delete(i, j).  A deletion that runs to the end of the text
\* keeps the final newline, strips the tags of that newline and, when it
\* starts at the beginning of a line other than the first, removes the
\* newline before it instead.
TkDelete(buf, i, j) ==
    LET e == Min(j, Len(buf))
    IN  IF i >= e THEN buf
        ELSE IF e = Len(buf)
        THEN LET i2 == IF i > 0 /\ buf[i].ch = "\n" THEN i - 1 ELSE i
             IN  SubSeq(buf, 1, i2) \o <<Item("\n", {})>>
        ELSE SubSeq(buf, 1, i) \o SubSeq(buf, e + 1, Len(buf))

\* text_area.tag_add(tag, i, j)
TkTagAdd(buf, tag, i, j) ==
    [k \in 1..Len(buf) |->
        IF i < k /\ k <= j THEN Item(buf[k].ch, buf[k].tags \cup {tag})
        ELSE buf[k]]

\* text_area.tag_remove(tag, i, j)
TkTagRemove(buf, tag, i, j) ==
    [k \in 1..Len(buf) |->
        IF i < k /\ k <= j THEN Item(buf[k].ch, buf[k].tags \ {tag})
        ELSE buf[k]]

\* text_area.tag_names(i): the tags on the item at an offset
TkTagNames(buf, i) == IF i < Len(buf) THEN buf[i + 1].tags ELSE {}

\* text_area.tag_ranges(tag): the maximal tagged runs, as <<start, end>>
\* offsets in text order
TkTagRanges(buf, tag) ==
    LET on(k)  == k >= 1 /\ k <= Len(buf) /\ tag \in buf[k].tags
        starts == {k \in 1..Len(buf) : on(k) /\ ~on(k - 1)}
        endOf(s) == CHOOSE e \in s..Len(buf) :
                        /\ \A k \in s..e : on(k)
                        /\ ~on(e + 1)
        order  == SortedSeq(starts)
    IN  [n \in 1..Len(order) |-> <<order[n] - 1, endOf(order[n])>>]

\* the characters of the text from an offset on, images left out
CharsFrom(buf, q) == TkGet(buf, q, Len(buf))

\* whether an exact match of the pattern begins at the offset
MatchAt(buf, q, pat) ==
    /\ q < Len(buf)
    /\ buf[q + 1].ch # ImageObj
    /\ Len(CharsFrom(buf, q)) >= Len(pat)
    /\ SubSeq(CharsFrom(buf, q), 1, Len(pat)) = pat

\* text_area.search(pat, start, tk.END): the offset of the first exact match
\* at or after the start, or -1 (the empty string of Tk) when there is none
TkSearch(buf, pat, start) ==
    LET hits == {q \in start..(Len(buf) - 1) : MatchAt(buf, q, pat)}
    IN  IF hits = {} THEN -1
        ELSE CHOOSE q \in hits : \A r \in hits : q <= r

(***************************************************************************)
(* Python dictionaries keep insertion order: a dictionary is a sequence of *)
(* [k, v] entries with distinct keys.                                      *)
(***************************************************************************)
DictKeys(d) == {d[i].k : i \in 1..Len(d)}

DictGet(d, key) == (CHOOSE i \in 1..Len(d) : d[i].k = key)

\* d[key] = value
DictSet(d, key, value) ==
    IF key \in DictKeys(d)
    THEN [i \in 1..Len(d) |-> IF d[i].k = key THEN [k |-> key, v |-> value] ELSE d[i]]
    ELSE Append(d, [k |-> key, v |-> value])

(***************************************************************************)
(* Tags and markers.                                                       *)
(***************************************************************************)
Tag(kind, name) == [kind |-> kind, name |-> name]

Bold      == Tag("bold", <<>>)
Italic    == Tag("italic", <<>>)
Underline == Tag("underline", <<>>)
\* f"size_{size}" and f"family_{family}"
SizeTag(name)   == Tag("size_", name)
FamilyTag(name) == Tag("family_", name)

\* f"[IMAGE:{img_id}]"
Marker(img_id) == <<"[", "I", "M", "A", "G", "E", ":">> \o img_id \o <<"]">>

\* the sizes save_formatting_data and change_font_size enumerate
FontSizes == <<8, 10, 12, 14, 16, 18, 20, 24>>

Arial   == <<"A", "r", "i", "a", "l">>
Courier == <<"C", "o", "u", "r", "i", "e", "r">>
\* font.families(): the fonts installed on the host
SystemFonts == <<Arial, Courier>>

(***************************************************************************)
(* Images.  A blob is the pair of dimensions of the picture it encodes;    *)
(* base64 text wraps it.                                                   *)
(***************************************************************************)
\* the width above which an image is scaled down
MaxWidth == 500

B64Encode(bytes) == [b64 |-> bytes]
B64Decode(text)  == text.b64

\* img.resize((500, int(img.height * ratio))) when img.width > 500
Resized(img) ==
    IF img.w > MaxWidth
    THEN [w |-> MaxWidth, h |-> (img.h * MaxWidth) \div img.w]
    ELSE img

(***************************************************************************)
(* The formatting record (self.formatting_data) and the JSON columns.      *)
(***************************************************************************)
\* self.formatting_data = {}
NoFormatting ==
    [keys |-> FALSE, bold |-> <<>>, italic |-> <<>>, underline |-> <<>>,
     font_size |-> <<>>, font_family |-> <<>>]

\* the (str(start), str(end)) pairs of a tag's ranges
RangesOf(buf, tag) ==
    LET r == TkTagRanges(buf, tag)
    IN  [n \in 1..Len(r) |-> <<TkIndex(buf, r[n][1]), TkIndex(buf, r[n][2])>>]

\* the entries {name: ranges} of the names, in order, that have a range
RECURSIVE RangeDict(_, _, _)
RangeDict(buf, kind, names) ==
    IF Len(names) = 0 THEN <<>>
    ELSE LET r == RangesOf(buf, Tag(kind, names[1]))
         IN  (IF Len(r) = 0 THEN <<>> ELSE <<[k |-> names[1], v |-> r]>>)
             \o RangeDict(buf, kind, Tail(names))

\* NotesApp.save_formatting_data
save_formatting_data(buf) ==
    [keys        |-> TRUE,
     bold        |-> RangesOf(buf, Bold),
     italic      |-> RangesOf(buf, Italic),
     underline   |-> RangesOf(buf, Underline),
     font_size   |-> RangeDict(buf, "size_",
                        [i \in 1..Len(FontSizes) |-> Str(FontSizes[i])]),
     font_family |-> RangeDict(buf, "family_", SystemFonts)]

\* json.dumps(images_data) if images_data else "{}"
ImagesJson(images) == [json |-> TRUE, items |-> images]

\* json.dumps(formatting_data) if formatting_data else "{}"
FormattingJson(fmt) ==
    [json |-> TRUE, dict |-> IF fmt.keys THEN fmt ELSE NoFormatting]

\* images != "{}" / formatting != "{}": the column is not the empty object
ImagesPresent(col)     == ~(col.json /\ col.items = <<>>)
FormattingPresent(col) == ~(col.json /\ ~col.dict.keys)

(***************************************************************************)
(* Loading a row into the widget (NotesApp.open_note_by_id).               *)
(***************************************************************************)
\* the while loop over the occurrences of one marker: each is deleted and
\* an image is created in its place; the next search starts len(marker)
\* characters after the place of the match
RECURSIVE ReplaceMarkers(_, _, _)
ReplaceMarkers(buf, marker, start) ==
    LET p == TkSearch(buf, marker, start)
    IN  IF p = -1 THEN buf
        ELSE LET cut  == TkDelete(buf, p, p + Len(marker))
                 shown == TkImageCreate(cut, p)
             IN  ReplaceMarkers(shown, marker, Min(p + Len(marker), Len(shown)))

\* for img_id, img_data in self.images_data.items()
RECURSIVE DisplayImages(_, _)
DisplayImages(buf, images) ==
    IF Len(images) = 0 THEN buf
    ELSE DisplayImages(ReplaceMarkers(buf, Marker(images[1].k), 0), Tail(images))

\* a counter that repeats the largest id instead of passing it
CounterAtLargestKey(images) ==
    LET nums == {ParseInt(k) : k \in {x \in DictKeys(images) : IsDigit(x)}}
    IN  IF nums = {} THEN 0 ELSE CHOOSE m \in nums : \A n \in nums : n <= m

\* a counter that takes -1 for the largest id when no key is numeric
CounterDefaultMinusOne(images) ==
    LET nums == {ParseInt(k) : k \in {x \in DictKeys(images) : IsDigit(x)}}
    IN  (IF nums = {} THEN -1 ELSE CHOOSE m \in nums : \A n \in nums : n <= m) + 1

\* max([int(k) for k in images_data.keys() if k.isdigit()], default=0) + 1
CounterFromKeys(images) ==
    LET nums == {ParseInt(k) : k \in {x \in DictKeys(images) : IsDigit(x)}}
    IN  (IF nums = {} THEN 0 ELSE CHOOSE m \in nums : \A n \in nums : n <= m) + 1

\* an entry of a stored range list is a pair of "line.col" indices; any
\* other entry makes "for start, end in ranges" or tag_add raise
WellFormed(range) == Len(range) = 2

\* for start, end in ranges: text_area.tag_add(tag, start, end), on a
\* widget state [buf, ok, calls]; ok is FALSE once an exception has been
\* raised, and nothing after the raise is executed; calls are the tags of
\* the tag_add calls made so far, in the order they were made
RECURSIVE ApplyRanges(_, _, _)
ApplyRanges(st, tag, ranges) ==
    IF ~st.ok \/ Len(ranges) = 0 THEN st
    ELSE IF ~WellFormed(ranges[1]) THEN [st EXCEPT !.ok = FALSE]
    ELSE ApplyRanges(
            [st EXCEPT !.buf = TkTagAdd(@, tag, TkOffset(@, ranges[1][1]),
                                        TkOffset(@, ranges[1][2])),
                       !.calls = Append(@, tag)],
            tag, Tail(ranges))

\* for name, ranges in dict.items(): the ranges of f"{kind}{name}"
RECURSIVE ApplyRangeDict(_, _, _)
ApplyRangeDict(st, kind, dict) ==
    IF ~st.ok \/ Len(dict) = 0 THEN st
    ELSE ApplyRangeDict(ApplyRanges(st, Tag(kind, dict[1].k), dict[1].v),
                        kind, Tail(dict))

\* a loader that adds the family tags before the size tags
FamilyBeforeSize(buf, fmt) ==
    LET b  == ApplyRanges([buf |-> buf, ok |-> TRUE, calls |-> <<>>], Bold, fmt.bold)
        i  == ApplyRanges(b, Italic, fmt.italic)
        u  == ApplyRanges(i, Underline, fmt.underline)
        fa == ApplyRangeDict(u, "family_", fmt.font_family)
    IN  ApplyRangeDict(fa, "size_", fmt.font_size)

\* the formatting block of open_note_by_id: the tags are added in this
\* order until one raises
FormattingBlock(buf, fmt) ==
    LET b  == ApplyRanges([buf |-> buf, ok |-> TRUE, calls |-> <<>>], Bold, fmt.bold)
        i  == ApplyRanges(b, Italic, fmt.italic)
        u  == ApplyRanges(i, Underline, fmt.underline)
        sz == ApplyRangeDict(u, "size_", fmt.font_size)
    IN  ApplyRangeDict(sz, "family_", fmt.font_family)

\* the except clause prints the error and keeps what was added before it
ApplyFormatting(buf, fmt) == FormattingBlock(buf, fmt).buf

(***************************************************************************)
(* The state of the program.                                               *)
(***************************************************************************)
VARIABLES
    text_area,        \* the items of the text widget
    current_format,   \* self.current_format
    settings,         \* self.settings
    db_settings,      \* table settings: its rows by id
    images_data,      \* self.images_data
    image_counter,    \* self.image_counter
    formatting_data,  \* self.formatting_data
    current_note_id,  \* self.current_note_id
    active_tab,       \* self.active_tab
    open_notes,       \* self.open_notes: <<note id, title>> pairs
    tab_references,   \* the keys of self.tab_references
    notes,            \* table notes: id -> row
    clock,            \* datetime.now()
    last,             \* the handler that ran last, with its inputs
    steps,            \* the number of handlers run
    scope             \* which inputs the run draws: "app" or "editor"

vars == <<text_area, current_format, settings, db_settings, images_data,
          image_counter, formatting_data, current_note_id, active_tab,
          open_notes, tab_references, notes, clock, last, steps, scope>>

\* the program's state as one record, for the handlers that call each other
App ==
    [text_area |-> text_area, current_format |-> current_format,
     settings |-> settings, db_settings |-> db_settings,
     images_data |-> images_data, image_counter |-> image_counter,
     formatting_data |-> formatting_data, current_note_id |-> current_note_id,
     active_tab |-> active_tab, open_notes |-> open_notes,
     tab_references |-> tab_references, notes |-> notes, clock |-> clock]

Becomes(S) ==
    /\ text_area' = S.text_area
    /\ current_format' = S.current_format
    /\ settings' = S.settings
    /\ db_settings' = S.db_settings
    /\ images_data' = S.images_data
    /\ image_counter' = S.image_counter
    /\ formatting_data' = S.formatting_data
    /\ current_note_id' = S.current_note_id
    /\ active_tab' = S.active_tab
    /\ open_notes' = S.open_notes
    /\ tab_references' = S.tab_references
    /\ notes' = S.notes
    /\ clock' = S.clock

(***************************************************************************)
(* The database functions.                                                 *)
(***************************************************************************)
DefaultSettings == [theme |-> "dark", font_family |-> Arial, font_size |-> 12]

\* the end of create_tables: a row of defaults is inserted when the
\* settings table has no row; a table that never had a row gives it id 1
create_tables(tbl) ==
    IF Cardinality(DOMAIN tbl) = 0
    THEN [i \in {1} |-> DefaultSettings]
    ELSE tbl

\* SELECT theme, font_family, font_size FROM settings WHERE id = 1
get_settings(tbl) ==
    IF 1 \in DOMAIN tbl
    THEN [theme |-> tbl[1].theme, font_family |-> tbl[1].font_family,
          font_size |-> tbl[1].font_size]
    ELSE [theme |-> "dark", font_family |-> Arial, font_size |-> 12]

\* a save that adds a row instead of updating row 1
insert_settings(tbl, s) ==
    LET id == IF DOMAIN tbl = {} THEN 1
              ELSE (CHOOSE m \in DOMAIN tbl : \A n \in DOMAIN tbl : n <= m) + 1
    IN  [i \in DOMAIN tbl \cup {id} |-> IF i = id THEN s ELSE tbl[i]]

\* UPDATE settings SET theme = ?, font_family = ?, font_size = ? WHERE id = 1
save_settings(tbl, s) ==
    [i \in DOMAIN tbl |->
        IF i = 1
        THEN [theme |-> s.theme, font_family |-> s.font_family,
              font_size |-> s.font_size]
        ELSE tbl[i]]

\* NotesApp.toggle_theme: the theme is flipped and the settings are saved
toggle_theme(S) ==
    LET theme == IF S.settings.theme = "dark" THEN "light" ELSE "dark"
        sett  == [S.settings EXCEPT !.theme = theme]
    IN  [S EXCEPT !.settings = sett,
                  !.db_settings = save_settings(S.db_settings, sett)]

\* sqlite3.connect(DATABASE): last_insert_rowid() of a connection is 0
\* until an INSERT has succeeded on that same connection
Connect == [last_insert_rowid |-> 0]

\* the rowid INSERT gives a row of an INTEGER PRIMARY KEY table
NextRowId(db) ==
    IF DOMAIN db = {} THEN 1
    ELSE (CHOOSE m \in DOMAIN db : \A n \in DOMAIN db : n <= m) + 1

Row(title, content, images, fmt, now) ==
    [title |-> title, content |-> content, updated_at |-> now,
     images |-> ImagesJson(images), formatting |-> FormattingJson(fmt)]

save_note_to_db(db, title, content, images, fmt, now) ==
    LET id == NextRowId(db)
    IN  [i \in DOMAIN db \cup {id} |->
            IF i = id THEN Row(title, content, images, fmt, now) ELSE db[i]]

update_note_in_db(db, note_id, title, content, images, fmt, now) ==
    [i \in DOMAIN db |->
        IF i = note_id THEN Row(title, content, images, fmt, now) ELSE db[i]]

\* get_note_content(note_id) returns a row
HasNote(db, note_id) == note_id \in DOMAIN db

\* a DELETE without its WHERE clause
delete_every_note(db, note_id) ==
    [i \in {} |-> db[i]]

delete_note_from_db(db, note_id) ==
    [i \in DOMAIN db \ {note_id} |-> db[i]]

\* the opposite order: the row with the smallest updated_at first
RECURSIVE OldestFirst(_, _)
OldestFirst(db, ids) ==
    IF Len(ids) = 0 THEN <<>>
    ELSE LET rest == OldestFirst(db, SubSeq(ids, 1, Len(ids) - 1))
             id   == ids[Len(ids)]
             n    == Cardinality({k \in 1..Len(rest) :
                         db[rest[k]].updated_at <= db[id].updated_at})
         IN  SubSeq(rest, 1, n) \o <<id>> \o SubSeq(rest, n + 1, Len(rest))

\* ORDER BY updated_at DESC: the ids of the rows, the row with the largest
\* updated_at first
RECURSIVE NewestFirst(_, _)
NewestFirst(db, ids) ==
    IF Len(ids) = 0 THEN <<>>
    ELSE LET rest == NewestFirst(db, SubSeq(ids, 1, Len(ids) - 1))
             id   == ids[Len(ids)]
             n    == Cardinality({k \in 1..Len(rest) :
                         db[rest[k]].updated_at >= db[id].updated_at})
         IN  SubSeq(rest, 1, n) \o <<id>> \o SubSeq(rest, n + 1, Len(rest))

\* SELECT id, title FROM notes ORDER BY updated_at DESC
get_notes_from_db(db) ==
    LET order == NewestFirst(db, SortedSeq(DOMAIN db))
    IN  [n \in 1..Len(order) |-> <<order[n], db[order[n]].title>>]

\* SELECT id, title, updated_at FROM notes ORDER BY updated_at DESC LIMIT ?
get_recent_notes_from_db(db, limit) ==
    LET order == NewestFirst(db, SortedSeq(DOMAIN db))
    IN  [n \in 1..Min(limit, Len(order)) |->
            <<order[n], db[order[n]].title, db[order[n]].updated_at>>]

(***************************************************************************)
(* Typing-mode formatting.                                                 *)
(***************************************************************************)
ResetFormat(S) ==
    [bold |-> FALSE, italic |-> FALSE, underline |-> FALSE,
     font_size |-> S.settings.font_size, font_family |-> S.settings.font_family]

\* a formatter that tags the size without comparing it to the default
apply_size_always(buf, fmt, sett, start_pos, end_pos) ==
    LET b == IF fmt.bold THEN TkTagAdd(buf, Bold, start_pos, end_pos) ELSE buf
        i == IF fmt.italic THEN TkTagAdd(b, Italic, start_pos, end_pos) ELSE b
        u == IF fmt.underline THEN TkTagAdd(i, Underline, start_pos, end_pos) ELSE i
        z == TkTagAdd(u, SizeTag(Str(fmt.font_size)), start_pos, end_pos)
    IN  IF fmt.font_family # sett.font_family
        THEN TkTagAdd(z, FamilyTag(fmt.font_family), start_pos, end_pos)
        ELSE z

apply_current_formatting(buf, fmt, sett, start_pos, end_pos) ==
    LET b == IF fmt.bold THEN TkTagAdd(buf, Bold, start_pos, end_pos) ELSE buf
        i == IF fmt.italic THEN TkTagAdd(b, Italic, start_pos, end_pos) ELSE b
        u == IF fmt.underline THEN TkTagAdd(i, Underline, start_pos, end_pos) ELSE i
        z == IF fmt.font_size # sett.font_size
             THEN TkTagAdd(u, SizeTag(Str(fmt.font_size)), start_pos, end_pos)
             ELSE u
    IN  IF fmt.font_family # sett.font_family
        THEN TkTagAdd(z, FamilyTag(fmt.font_family), start_pos, end_pos)
        ELSE z

\* the <<Modified>> handler, run once the handler that changed the text has
\* returned; insert_pos is the place of the insert mark at that time
on_text_modified(S, insert_pos) ==
    LET start_pos == Max(insert_pos - 1, 0)
    IN  IF start_pos < insert_pos
        THEN [S EXCEPT !.text_area =
                apply_current_formatting(S.text_area, S.current_format,
                                         S.settings, start_pos, insert_pos)]
        ELSE S

(***************************************************************************)
(* Tabs and notes.                                                         *)
(***************************************************************************)
\* the image block of open_note_by_id
LoadImages(S, col) ==
    IF ~ImagesPresent(col) \/ ~col.json
    THEN [S EXCEPT !.images_data = <<>>, !.image_counter = 0]
    ELSE [S EXCEPT !.images_data = col.items,
                   !.text_area = DisplayImages(S.text_area, col.items),
                   !.image_counter = IF col.items # <<>>
                                     THEN CounterFromKeys(col.items) ELSE 0]

\* the formatting block of open_note_by_id
LoadFormatting(S, col) ==
    IF ~FormattingPresent(col) \/ ~col.json
    THEN [S EXCEPT !.formatting_data = NoFormatting]
    ELSE [S EXCEPT !.formatting_data = col.dict,
                   !.text_area = ApplyFormatting(S.text_area, col.dict)]

open_note_by_id(S, note_id) ==
    LET S1 == [S EXCEPT !.current_note_id = note_id]
    IN  IF ~HasNote(S.notes, note_id) THEN S1
        ELSE LET row == S.notes[note_id]
                 S2  == [S1 EXCEPT
                           !.text_area = TkInsert(TkDelete(S.text_area, 0, Len(S.text_area)),
                                                  0, row.content),
                           !.current_format = ResetFormat(S)]
             IN  LoadFormatting(LoadImages(S2, row.images), row.formatting)

activate_tab(S, note_id) ==
    IF note_id \in S.tab_references
    THEN open_note_by_id([S EXCEPT !.active_tab = note_id], note_id)
    ELSE S

TabIds(S) == {S.open_notes[i][1] : i \in 1..Len(S.open_notes)}

\* a tab is appended without looking for one with the same id
add_tab_unchecked(S, note_id, title) ==
    activate_tab([S EXCEPT !.open_notes = Append(@, <<note_id, title>>),
                           !.tab_references = @ \cup {note_id}],
                 note_id)

add_tab(S, note_id, title) ==
    IF note_id \in TabIds(S) THEN activate_tab(S, note_id)
    ELSE activate_tab([S EXCEPT !.open_notes = Append(@, <<note_id, title>>),
                               !.tab_references = @ \cup {note_id}],
                      note_id)

\* the editor is cleared: new_note, close_tab of the last tab
ClearEditor(S) ==
    [S EXCEPT !.current_note_id = None,
              !.text_area = TkDelete(@, 0, Len(@)),
              !.images_data = <<>>,
              !.image_counter = 0,
              !.formatting_data = NoFormatting,
              !.current_format = ResetFormat(S)]

close_tab(S, note_id) ==
    LET S1 == [S EXCEPT !.tab_references = @ \ {note_id},
                        !.open_notes = SelectSeq(@, LAMBDA t : t[1] # note_id)]
    IN  IF S.active_tab # note_id THEN S1
        ELSE IF S1.open_notes # <<>>
        THEN activate_tab([S1 EXCEPT !.active_tab = None], S1.open_notes[1][1])
        ELSE ClearEditor([S1 EXCEPT !.active_tab = None])

new_note(S) == add_tab(ClearEditor(S), None, "Untitled")

\* the two reasons save_note returns before it saves anything
BlankContent(content) == Strip(content) = <<>>
\* a check that tells a cancelled dialog only
NoTitleWhenCancelled(dialog) == dialog.cancelled
NoTitle(dialog) == dialog.cancelled \/ dialog.text = ""

save_note(S, dialog) ==
    LET content == GetAll(S.text_area)
        title   == dialog.text
        fmt     == save_formatting_data(S.text_area)
        F       == [S EXCEPT !.formatting_data = fmt, !.clock = @ + 1]
    IN  IF BlankContent(content) THEN S
        ELSE IF NoTitle(dialog) THEN S
        ELSE IF S.current_note_id = None
        THEN LET new_id == Connect.last_insert_rowid
                 W == [F EXCEPT !.notes = save_note_to_db(@, title, content,
                                              S.images_data, fmt, S.clock),
                                !.current_note_id = new_id]
             IN  IF S.active_tab = None THEN add_tab(W, new_id, title)
                 ELSE add_tab(close_tab(W, S.active_tab), new_id, title)
        ELSE LET W == [F EXCEPT !.notes = update_note_in_db(@, S.current_note_id,
                                     title, content, S.images_data, fmt, S.clock)]
             IN  IF S.current_note_id \in S.tab_references
                 THEN [W EXCEPT !.open_notes =
                        [i \in 1..Len(@) |->
                            IF @[i][1] = S.current_note_id
                            THEN <<@[i][1], title>> ELSE @[i]]]
                 ELSE W

delete_note(S, confirmed) ==
    IF S.current_note_id = None \/ ~confirmed
       \/ ~HasNote(S.notes, S.current_note_id)
    THEN S
    ELSE LET D == close_tab([S EXCEPT !.notes =
                                delete_note_from_db(@, S.current_note_id)],
                            S.current_note_id)
         IN  IF D.active_tab = None
             THEN [D EXCEPT !.current_note_id = None,
                            !.text_area = TkDelete(@, 0, Len(@)),
                            !.images_data = <<>>,
                            !.image_counter = 0,
                            !.formatting_data = NoFormatting]
             ELSE D

(***************************************************************************)
(* The formatting commands.                                                *)
(***************************************************************************)
\* sel.first / sel.last when text is selected; without a selection the
\* toggles use the insert mark and the character after it
SelStart(sel) == sel.a
\* an end that is always one character after the start
SelEndNextChar(buf, sel) == Min(sel.a + 1, Len(buf))
SelEnd(buf, sel) == IF sel.has THEN sel.b ELSE Min(sel.a + 1, Len(buf))

\* the body the three toggle handlers share
Toggle(S, field, tag, sel) ==
    LET on  == ~S.current_format[field]
        buf == S.text_area
    IN  [S EXCEPT !.current_format[field] = on,
                  !.text_area = IF on
                                THEN TkTagAdd(buf, tag, SelStart(sel), SelEnd(buf, sel))
                                ELSE TkTagRemove(buf, tag, SelStart(sel), SelEnd(buf, sel))]

toggle_bold(S, sel)      == Toggle(S, "bold", Bold, sel)
toggle_italic(S, sel)    == Toggle(S, "italic", Italic, sel)
toggle_underline(S, sel) == Toggle(S, "underline", Underline, sel)

\* tag_remove of every tag of a set over [i, j)
RemoveTags(buf, tags, i, j) ==
    [k \in 1..Len(buf) |->
        IF i < k /\ k <= j THEN Item(buf[k].ch, buf[k].tags \ tags) ELSE buf[k]]

\* without a selection the handlers start with
\* font.nametofont(self.text_area["font"]).  The widget's font is the
\* description (family, size) it was created with, never a named font, so
\* nametofont raises TclError inside the except clause; the handler's outer
\* "except Exception" prints it, and the statements after it, the update of
\* self.settings and save_settings among them, are not reached.
NamedFontMissing(S) == S

change_font_size(S, font_size, sel) ==
    LET F == [S EXCEPT !.current_format.font_size = font_size]
    IN  IF ~sel.has
        THEN NamedFontMissing(F)
        ELSE LET listed  == {SizeTag(Str(FontSizes[i])) : i \in 1..Len(FontSizes)}
                 cleared == RemoveTags(S.text_area, listed, sel.a, sel.b)
             IN  [F EXCEPT !.text_area =
                     TkTagAdd(cleared, SizeTag(Str(font_size)), sel.a, sel.b)]

change_font_family(S, font_family, sel) ==
    LET F == [S EXCEPT !.current_format.font_family = font_family]
    IN  IF ~sel.has
        THEN NamedFontMissing(F)
        ELSE LET atStart == {t \in TkTagNames(S.text_area, sel.a) : t.kind = "family_"}
                 cleared == RemoveTags(S.text_area, atStart, sel.a, sel.b)
             IN  [F EXCEPT !.text_area =
                     TkTagAdd(cleared, FamilyTag(font_family), sel.a, sel.b)]

(***************************************************************************)
(* Images.                                                                 *)
(***************************************************************************)
\* image_create at the cursor, then the marker is inserted at the same
\* index and the span of the marker is deleted again
ShowImage(buf, pos, img_id) ==
    LET created == TkImageCreate(buf, pos)
        marked  == TkInsert(created, pos, Marker(img_id))
    IN  TkDelete(marked, pos, pos + Len(Marker(img_id)))

\* an insert that leaves the counter where it was
insert_image_same_counter(S, file, pos) ==
    LET img_id == Str(S.image_counter)
    IN  on_text_modified(
            [S EXCEPT !.text_area = ShowImage(@, pos, img_id),
                      !.images_data = DictSet(@, img_id, B64Encode(file))],
            pos + 1)

\* the file is opened for display; its bytes are stored as they are
insert_image(S, file, pos) ==
    LET img_id == Str(S.image_counter)
    IN  on_text_modified(
            [S EXCEPT !.image_counter = @ + 1,
                      !.text_area = ShowImage(@, pos, img_id),
                      !.images_data = DictSet(@, img_id, B64Encode(file))],
            pos + 1)

\* the clipboard holds an image: the resized image is stored as PNG
paste_image(S, clip, pos) ==
    LET img_id == Str(S.image_counter)
    IN  on_text_modified(
            [S EXCEPT !.image_counter = @ + 1,
                      !.text_area = ShowImage(@, pos, img_id),
                      !.images_data = DictSet(@, img_id, B64Encode(Resized(clip)))],
            pos + 1)

\* the clipboard holds text: text_area.insert(tk.INSERT, text)
paste_text(S, text, pos) ==
    on_text_modified([S EXCEPT !.text_area = TkInsert(@, pos, text)],
                     pos + Len(text))

\* a key press: Tk inserts the character at the insert mark
type_char(S, c, pos) ==
    on_text_modified([S EXCEPT !.text_area = TkInsert(@, pos, <<c>>)], pos + 1)

\* BackSpace, Delete or a cut: Tk deletes [i, j) and leaves the mark at i
delete_text(S, i, j) ==
    on_text_modified([S EXCEPT !.text_area = TkDelete(@, i, j)], i)

(***************************************************************************)
(* The inputs.  An editing session (scope "editor") places the cursor and  *)
(* the selection anywhere; the application runs (scope "app") edit at the  *)
(* end of the text and select all of it.                                   *)
(***************************************************************************)
\* the scopes in which the cursor and the selection are placed anywhere
AnyPosition  == scope \in {"editor", "formatted"}

TypedChars   == {"a", " ", "\n"}
ClipTexts    == IF AnyPosition THEN {<<"h", "i">>} ELSE {Marker(<<"0">>)}
ImageFiles   == IF scope = "editor"
                THEN {[w |-> 400, h |-> 300], [w |-> 1000, h |-> 500]}
                ELSE {[w |-> 1000, h |-> 500]}
SizeInputs   == {18, 11}
FamilyInputs == {Courier}
Dialogs      == {[cancelled |-> FALSE, text |-> "t"],
                 [cancelled |-> FALSE, text |-> ""],
                 [cancelled |-> TRUE, text |-> ""]}

\* where the insert mark can be: before any item
Cursors(buf) ==
    IF AnyPosition THEN 0..(Len(buf) - 1) ELSE {Len(buf) - 1}

\* a selection [a, b), or none with the insert mark at a
Selections(buf) ==
    {[has |-> FALSE, a |-> x, b |-> x] : x \in Cursors(buf)}
    \cup IF AnyPosition
         THEN {[has |-> TRUE, a |-> x, b |-> y] :
                    x \in 0..(Len(buf) - 1), y \in 1..Len(buf)}
         ELSE {[has |-> TRUE, a |-> 0, b |-> Len(buf)]}

ValidSel(sel) == sel.has => sel.a < sel.b

\* the spans a key or a cut deletes; the final newline is never deleted
Deletions(buf) ==
    IF AnyPosition
    THEN {<<i, j>> \in (0..(Len(buf) - 1)) \X (0..(Len(buf) - 1)) : i < j}
    ELSE {<<Len(buf) - 2, Len(buf) - 1>>}

(***************************************************************************)
(* The specifications.                                                     *)
(***************************************************************************)
Budget ==
    CASE AnyPosition -> MaxEdits
      [] scope = "stored" -> MaxLoads
      [] scope = "settings" -> MaxCalls
      [] OTHER -> MaxSteps

Did(op, x, y, t) ==
    /\ steps' = steps + 1
    /\ last' = [op |-> op, x |-> x, y |-> y, t |-> t]
    /\ scope' = scope

\* NotesApp.__init__ after the settings have been read
Window ==
    /\ text_area = EmptyText
    /\ current_format = [bold |-> FALSE, italic |-> FALSE, underline |-> FALSE,
                         font_size |-> DefaultSettings.font_size,
                         font_family |-> DefaultSettings.font_family]
    /\ images_data = <<>>
    /\ image_counter = 0
    /\ formatting_data = NoFormatting
    /\ current_note_id = None
    /\ active_tab = None
    /\ open_notes = <<>>
    /\ tab_references = {}
    /\ clock = 0
    /\ last = [op |-> "init", x |-> 0, y |-> 0, t |-> ""]
    /\ steps = 0

\* NotesApp.__init__ on a new database file
Constructed ==
    /\ db_settings = create_tables(<<>>)
    /\ settings = get_settings(db_settings)
    /\ Window

Init == Constructed /\ notes = <<>> /\ scope = "app"

InitEditor == Constructed /\ notes = <<>> /\ scope = "editor"

\* a notes table written before this run, by this program or by another
\* writer of notes.db: the images column lists its keys
StoredNote(content, json, keys) ==
    [title |-> "n", content |-> content, updated_at |-> 0,
     images |-> [json |-> json,
                 items |-> [n \in 1..Len(keys) |->
                               [k |-> keys[n], v |-> B64Encode([w |-> 400, h |-> 300])]]],
     formatting |-> FormattingJson(NoFormatting)]

\* a stored note without images whose formatting column is given
StoredFormatted(content, col) ==
    [StoredNote(content, TRUE, <<>>) EXCEPT !.formatting = col]

\* a formatting object whose bold list is valid and whose italic list has an
\* entry that is not a pair
HalfValidFormatting ==
    [json |-> TRUE,
     dict |-> [keys |-> TRUE,
               bold |-> << <<(<<1, 0>>), (<<1, 1>>)>> >>,
               italic |-> << <<>> >>,
               underline |-> <<>>, font_size |-> <<>>, font_family |-> <<>>]]

\* a formatting object with ranges of every kind, all of them pairs
EveryKindFormatting ==
    [json |-> TRUE,
     dict |-> [keys |-> TRUE,
               bold |-> << <<(<<1, 0>>), (<<1, 1>>)>> >>,
               italic |-> << <<(<<1, 0>>), (<<1, 2>>)>> >>,
               underline |-> << <<(<<1, 1>>), (<<1, 2>>)>> >>,
               font_size |-> <<[k |-> Str(18), v |-> << <<(<<1, 0>>), (<<1, 1>>)>> >>],
                               [k |-> Str(14), v |-> << <<(<<1, 1>>), (<<1, 2>>)>> >>]>>,
               font_family |-> <<[k |-> Courier, v |-> << <<(<<1, 0>>), (<<1, 2>>)>> >>]>>]]

\* the same object with a second entry under size 18 that is not a pair
BrokenSizeFormatting ==
    [EveryKindFormatting EXCEPT
        !.dict.font_size[1].v = Append(@, <<>>)]

\* a formatting column that is not JSON
NotJson == [json |-> FALSE, dict |-> NoFormatting]

StoredNotes ==
    LET rows ==
    <<StoredNote(<<"a", "\n">>, TRUE, <<>>),
      StoredNote(Marker(<<"0">>) \o <<"\n">>, TRUE, << <<"0">> >>),
      StoredNote(<<"a", "\n">>, TRUE, << <<"x">> >>),
      StoredNote(<<"a", "\n">>, TRUE, << <<"2">>, <<"x">> >>),
      StoredNote(<<"a", "\n">>, FALSE, <<>>),
      StoredFormatted(<<"a", "b", "\n">>, HalfValidFormatting),
      StoredFormatted(<<"a", "b", "\n">>, NotJson),
      StoredNote(Marker(<<"0">>) \o Marker(<<"0">>) \o <<"\n">>, TRUE, << <<"0">> >>),
      StoredFormatted(<<"a", "b", "\n">>, EveryKindFormatting),
      StoredFormatted(<<"a", "b", "\n">>, BrokenSizeFormatting)>>
    \* the rows were saved one after the other before this run began
    IN  [i \in 1..Len(rows) |->
            [rows[i] EXCEPT !.updated_at = i - 1 - Len(rows)]]


InitStored == Constructed /\ notes = StoredNotes /\ scope = "stored"

TypeChar ==
    /\ steps < Budget
    /\ Len(text_area) < MaxLen
    /\ \E c \in TypedChars, pos \in Cursors(text_area) :
        /\ Becomes(type_char(App, c, pos))
        /\ Did("type_char", pos, 1, c)

PasteText ==
    /\ steps < Budget
    /\ \E text \in ClipTexts, pos \in Cursors(text_area) :
        /\ Len(text_area) + Len(text) <= MaxLen
        /\ Becomes(paste_text(App, text, pos))
        /\ Did("paste_text", pos, Len(text), "")

PasteImage ==
    /\ steps < Budget
    /\ Len(text_area) < MaxLen
    /\ \E clip \in ImageFiles, pos \in Cursors(text_area) :
        /\ Becomes(paste_image(App, clip, pos))
        /\ Did("paste_image", pos, image_counter, "")

InsertImage ==
    /\ steps < Budget
    /\ Len(text_area) < MaxLen
    /\ \E file \in ImageFiles, pos \in Cursors(text_area) :
        /\ Becomes(insert_image(App, file, pos))
        /\ Did("insert_image", pos, image_counter, "")

DeleteText ==
    /\ steps < Budget
    /\ Len(text_area) > 1
    /\ \E d \in Deletions(text_area) :
        /\ Becomes(delete_text(App, d[1], d[2]))
        /\ Did("delete_text", d[1], d[2], "")

SelArg(sel) == IF sel.has THEN "selection" ELSE "cursor"

ToggleBold ==
    /\ steps < Budget
    /\ \E sel \in Selections(text_area) :
        /\ ValidSel(sel)
        /\ Becomes(toggle_bold(App, sel))
        /\ Did("toggle_bold", sel.a, sel.b, SelArg(sel))

ToggleItalic ==
    /\ steps < Budget
    /\ \E sel \in Selections(text_area) :
        /\ ValidSel(sel)
        /\ Becomes(toggle_italic(App, sel))
        /\ Did("toggle_italic", sel.a, sel.b, SelArg(sel))

ToggleUnderline ==
    /\ steps < Budget
    /\ \E sel \in Selections(text_area) :
        /\ ValidSel(sel)
        /\ Becomes(toggle_underline(App, sel))
        /\ Did("toggle_underline", sel.a, sel.b, SelArg(sel))

ChangeFontSize ==
    /\ steps < Budget
    /\ \E n \in SizeInputs, sel \in Selections(text_area) :
        /\ ValidSel(sel)
        /\ Becomes(change_font_size(App, n, sel))
        /\ Did("change_font_size", sel.a, sel.b, SelArg(sel))

ChangeFontFamily ==
    /\ steps < Budget
    /\ \E f \in FamilyInputs, sel \in Selections(text_area) :
        /\ ValidSel(sel)
        /\ Becomes(change_font_family(App, f, sel))
        /\ Did("change_font_family", sel.a, sel.b, SelArg(sel))

NewNote ==
    /\ steps < Budget
    /\ Becomes(new_note(App))
    /\ Did("new_note", 0, 0, "")

SaveNote ==
    /\ steps < Budget
    /\ \E dialog \in Dialogs :
        /\ Becomes(save_note(App, dialog))
        /\ Did("save_note", IF dialog.cancelled THEN 1 ELSE 0, current_note_id,
               dialog.text)

\* a note is picked in the dialog of open_note_dialog
OpenNoteInTab ==
    /\ steps < Budget
    /\ \E id \in DOMAIN notes :
        /\ Becomes(add_tab(App, id, notes[id].title))
        /\ Did("open_note_in_tab", id, 0, "")

\* a tab's button
ActivateTab ==
    /\ steps < Budget
    /\ \E id \in tab_references :
        /\ Becomes(activate_tab(App, id))
        /\ Did("activate_tab", id, 0, "")

\* a tab's close button
CloseTab ==
    /\ steps < Budget
    /\ \E id \in tab_references :
        /\ Becomes(close_tab(App, id))
        /\ Did("close_tab", id, 0, "")

DeleteNote ==
    /\ steps < Budget
    /\ \E confirmed \in BOOLEAN :
        /\ Becomes(delete_note(App, confirmed))
        /\ Did("delete_note", IF confirmed THEN 1 ELSE 0, current_note_id, "")

\* the application: notes are written, saved, opened in tabs and deleted
Next ==
    \/ TypeChar
    \/ PasteText
    \/ InsertImage
    \/ DeleteText
    \/ ToggleBold
    \/ NewNote
    \/ SaveNote
    \/ OpenNoteInTab
    \/ ActivateTab
    \/ CloseTab
    \/ DeleteNote

Spec == Init /\ [][Next]_vars

\* an editing session on one document
NextEditor ==
    \/ TypeChar
    \/ PasteText
    \/ PasteImage
    \/ InsertImage
    \/ DeleteText
    \/ ToggleBold
    \/ ToggleItalic
    \/ ToggleUnderline
    \/ ChangeFontSize
    \/ ChangeFontFamily

SpecEditor == InitEditor /\ [][NextEditor]_vars

\* a run that starts on stored notes
NextStored ==
    \/ TypeChar
    \/ OpenNoteInTab
    \/ ActivateTab
    \/ CloseTab
    \/ NewNote
    \/ InsertImage
    \/ SaveNote
    \/ DeleteNote

SpecStored == InitStored /\ [][NextStored]_vars

\* a stored note with ranges of every kind is opened and edited
InitFormatted ==
    /\ Constructed
    /\ notes = <<[StoredFormatted(<<"a", "b", "\n">>, EveryKindFormatting)
                    EXCEPT !.updated_at = -1]>>
    /\ scope = "formatted"

NextFormatted ==
    \/ OpenNoteInTab
    \/ TypeChar
    \/ PasteText
    \/ DeleteText

SpecFormatted == InitFormatted /\ [][NextFormatted]_vars

\* the settings a caller may hand to save_settings
SettingsValues ==
    [n \in 1..8 |->
        [theme       |-> IF n % 2 = 1 THEN "dark" ELSE "light",
         font_family |-> IF ((n - 1) \div 2) % 2 = 0 THEN Arial ELSE Courier,
         font_size   |-> IF n <= 4 THEN 12 ELSE 18]]

\* a database file whose settings table has been created and has no row
\* yet: create_tables has not reached its INSERT
InitSettings ==
    /\ db_settings = <<>>
    /\ settings = DefaultSettings
    /\ Window
    /\ notes = <<>>
    /\ scope = "settings"

CreateTables ==
    /\ steps < Budget
    /\ Becomes([App EXCEPT !.db_settings = create_tables(db_settings)])
    /\ Did("create_tables", 0, 0, "")

\* self.settings = get_settings()
GetSettings ==
    /\ steps < Budget
    /\ Becomes([App EXCEPT !.settings = get_settings(db_settings)])
    /\ Did("get_settings", 0, 0, "")

SaveSettings ==
    /\ steps < Budget
    /\ \E n \in DOMAIN SettingsValues :
        /\ Becomes([App EXCEPT
                      !.db_settings = save_settings(db_settings, SettingsValues[n])])
        /\ Did("save_settings", n, 0, "")

ToggleTheme ==
    /\ steps < Budget
    /\ Becomes(toggle_theme(App))
    /\ Did("toggle_theme", 0, 0, "")

NextSettings ==
    \/ CreateTables
    \/ GetSettings
    \/ SaveSettings
    \/ ToggleTheme

SpecSettings == InitSettings /\ [][NextSettings]_vars

(***************************************************************************)
(* Saving the document and opening the row that the save wrote.            *)
(***************************************************************************)
SaveDialog == [cancelled |-> FALSE, text |-> "t"]

\* the document can be saved and, if it has an id, the id is a stored row
Saveable ==
    /\ ~BlankContent(GetAll(text_area))
    /\ current_note_id = None \/ HasNote(notes, current_note_id)

\* the row the save writes
SavedRow ==
    IF current_note_id = None THEN NextRowId(notes) ELSE current_note_id

Reloaded == open_note_by_id(save_note(App, SaveDialog), SavedRow)

\* C1: saving a document with content and a title and opening the saved
\* row gives back the text that the widget held before the save.
TextRoundTrip ==
    Saveable => GetAll(Reloaded.text_area) = GetAll(text_area)

\* the style tags on the item at offset k (0-based)
StylesAt(buf, k) == IF k < Len(buf) THEN buf[k + 1].tags ELSE {}

\* C2: after saving and opening the saved row, every character offset is
\* covered by the same set of styles (Bold, Italic, Underline, sizes,
\* families) as before the save.
StyleRoundTrip ==
    Saveable =>
        \A k \in 0..(Len(text_area) - 1) :
            StylesAt(Reloaded.text_area, k) = StylesAt(text_area, k)

\* C3: after insert_image or an image paste at offset x of an image with
\* id y, the text holds the marker [IMAGE:y] at x and the images store has
\* an entry for y.
MarkerStaysInText ==
    last.op \in {"insert_image", "paste_image"} =>
        /\ MatchAt(text_area, last.x, Marker(Str(last.y)))
        /\ Str(last.y) \in DictKeys(images_data)

\* a save_note step that passes validation
SavePasses ==
    /\ last'.op = "save_note"
    /\ last'.x = 0
    /\ last'.t # ""
    /\ ~BlankContent(GetAll(text_area))

\* C4: a successful save of a document without an id adds exactly one row,
\* and current_note_id becomes the id of that row, which holds the title
\* and the content that were saved.
FirstSaveAssignsRowId ==
    [][(SavePasses /\ current_note_id = None) =>
        \E id \in DOMAIN notes' \ DOMAIN notes :
            /\ DOMAIN notes' = DOMAIN notes \cup {id}
            /\ current_note_id' = id
            /\ notes'[id].title = last'.t
            /\ notes'[id].content = GetAll(text_area)]_vars

\* C5: a successful save of a document that has an id adds no row and
\* leaves the row of that id with the title, content, images and formatting
\* of this save and a refreshed updated_at.
ReSaveUpdatesRow ==
    [][(SavePasses /\ current_note_id # None) =>
        /\ DOMAIN notes' = DOMAIN notes
        /\ HasNote(notes', current_note_id)
        /\ notes'[current_note_id] =
              Row(last'.t, GetAll(text_area), images_data,
                  save_formatting_data(text_area), clock)]_vars

\* a save_note step with blank content, a cancelled dialog or an empty title
SaveRejected ==
    /\ last'.op = "save_note"
    /\ BlankContent(GetAll(text_area)) \/ last'.x = 1 \/ last'.t = ""

\* C6: a save with blank content, a cancelled dialog or an empty title
\* changes nothing: no row is added or modified, current_note_id and the
\* tabs stay as they were.
RejectedSaveChangesNothing ==
    [][SaveRejected =>
        /\ notes' = notes
        /\ current_note_id' = current_note_id
        /\ open_notes' = open_notes
        /\ tab_references' = tab_references
        /\ text_area' = text_area]_vars

\* a save with an empty title was rejected on a document with content, and
\* so was one on a blank document of a saved note
RejectedSaveSeen ==
    /\ last.op = "save_note"
    /\ last.x = 0
    /\ last.t = ""
    /\ ~BlankContent(GetAll(text_area))
    /\ DOMAIN notes # {}

\* the number of embedded images in the text
ImagesShown(buf) == Cardinality({k \in 1..Len(buf) : buf[k].ch = ImageObj})

\* C7: on one document, the k-th image insert gets the id k-1; an insert
\* adds its id as a new key and keeps every earlier entry, and deleting
\* text removes no entry and does not move the counter.
ImageIdsNeverReused ==
    /\ [](/\ Len(images_data) = image_counter
          /\ \A n \in 1..Len(images_data) : images_data[n].k = Str(n - 1))
    /\ [][/\ last'.op \in {"insert_image", "paste_image"} =>
                /\ image_counter' = image_counter + 1
                /\ Str(image_counter) \notin DictKeys(images_data)
                /\ Len(images_data') = Len(images_data) + 1
                /\ images_data'[Len(images_data')].k = Str(image_counter)
                /\ \A n \in 1..Len(images_data) : images_data'[n] = images_data[n]
          /\ last'.op = "delete_text" =>
                /\ images_data' = images_data
                /\ image_counter' = image_counter]_vars

\* a second image was inserted after the first one was deleted from the text
SecondImageAfterDelete ==
    /\ last.op \in {"insert_image", "paste_image"}
    /\ image_counter = 2
    /\ DictKeys(images_data) = {Str(0), Str(1)}
    /\ ImagesShown(text_area) = 1

\* C8: image_counter is greater than every all-digit key of images_data.
CounterAboveKeys ==
    \A k \in DictKeys(images_data) : IsDigit(k) => ParseInt(k) < image_counter

\* an image was inserted into a note that was loaded with an image
InsertAfterLoad ==
    /\ last.op = "insert_image"
    /\ HasNote(notes, current_note_id)
    /\ notes[current_note_id].images.items # <<>>
    /\ Len(images_data) = Len(notes[current_note_id].images.items) + 1

\* the all-digit keys of a stored images column, as numbers
NumericIds(col) ==
    {ParseInt(k) : k \in {x \in DictKeys(col.items) : IsDigit(x)}}

Largest(nums) == CHOOSE m \in nums : \A n \in nums : n <= m

\* the current document was loaded from its stored row by the last step
Loaded ==
    /\ last.op \in {"open_note_in_tab", "activate_tab"}
    /\ HasNote(notes, current_note_id)

\* C9 as stated: after a load the counter is 1 + the largest numeric id,
\* with -1 for the largest when there is none.
CounterAfterLoadDefaultMinusOne ==
    Loaded =>
        LET col == notes[current_note_id].images
        IN  image_counter =
                1 + Largest(NumericIds(IF col.json THEN col
                                           ELSE [col EXCEPT !.items = <<>>])
                                \cup {-1})

\* C9: after a load the counter is 1 + the largest numeric id; it is 0 when
\* the stored images object is empty and 1 when it has keys of which none
\* is numeric.
CounterAfterLoad ==
    Loaded =>
        LET col == notes[current_note_id].images
        IN  image_counter =
                IF ~col.json \/ col.items = <<>> THEN 0
                ELSE IF NumericIds(col) = {} THEN 1
                ELSE 1 + Largest(NumericIds(col))

\* a note whose images have keys, none of them numeric, was loaded
LoadedNoNumericKey ==
    /\ Loaded
    /\ images_data # <<>>
    /\ NumericIds(notes[current_note_id].images) = {}
    /\ image_counter = 1

\* C10: with a typing-mode style on, all the characters that one insertion
\* (a key press or a paste of text) put in carry that style.
TypingModeCoversInsert ==
    last.op \in {"type_char", "paste_text"} =>
        \A k \in last.x..(last.x + last.y - 1) :
            /\ current_format.bold => Bold \in StylesAt(text_area, k)
            /\ current_format.italic => Italic \in StylesAt(text_area, k)
            /\ current_format.underline => Underline \in StylesAt(text_area, k)

(***************************************************************************)
(* The toggles and the size and family commands.                           *)
(***************************************************************************)
ToggleOps == {"toggle_bold", "toggle_italic", "toggle_underline"}

ToggleField(op) ==
    CASE op = "toggle_bold" -> "bold"
      [] op = "toggle_italic" -> "italic"
      [] OTHER -> "underline"

ToggleTag(op) ==
    CASE op = "toggle_bold" -> Bold
      [] op = "toggle_italic" -> Italic
      [] OTHER -> Underline

\* C11: a toggle with a selection [s, e) negates its flag; every offset of
\* [s, e) carries the style if the new flag is on and none does if it is
\* off; no other style and no offset outside [s, e) changes.
ToggleOverSelection ==
    [][(last'.op \in ToggleOps /\ last'.t = "selection") =>
        LET tag == ToggleTag(last'.op)
            on  == current_format'[ToggleField(last'.op)]
        IN  /\ on = ~current_format[ToggleField(last'.op)]
            /\ Len(text_area') = Len(text_area)
            /\ \A k \in 0..(Len(text_area) - 1) :
                 IF last'.x <= k /\ k < last'.y
                 THEN /\ (tag \in StylesAt(text_area', k)) = on
                      /\ StylesAt(text_area', k) \ {tag} = StylesAt(text_area, k) \ {tag}
                 ELSE StylesAt(text_area', k) = StylesAt(text_area, k)]_vars

\* bold was taken off a selection and stays on an offset outside it
BoldOffSelectionOnly ==
    /\ last.op = "toggle_bold"
    /\ last.t = "selection"
    /\ ~current_format.bold
    /\ last.x < last.y
    /\ \A k \in last.x..(last.y - 1) : Bold \notin StylesAt(text_area, k)
    /\ \E k \in 0..(Len(text_area) - 1) : Bold \in StylesAt(text_area, k)

\* C12: a toggle without a selection flips its flag and leaves every
\* character of the buffer, the one after the cursor included, with the
\* styles it had.
ToggleAtCursorOnlyArms ==
    [][(last'.op \in ToggleOps /\ last'.t = "cursor") =>
        /\ current_format'[ToggleField(last'.op)]
              = ~current_format[ToggleField(last'.op)]
        /\ Len(text_area') = Len(text_area)
        /\ \A k \in 1..(Len(text_area) - 1) : text_area'[k] = text_area[k]]_vars

SizeTags(tags)   == {t \in tags : t.kind = "size_"}
FamilyTags(tags) == {t \in tags : t.kind = "family_"}

\* C13: a typed character gets the size tag of the current size exactly
\* when that size differs from the default in settings, and the family tag
\* of the current family exactly when that family differs from the default;
\* otherwise typing adds no size or family tag to what the place of the
\* insertion already carried.
TypedSizeAndFamily ==
    [][last'.op = "type_char" =>
        LET typed == text_area'[last'.x + 1].tags
            there == Inherited(text_area, last'.x)
        IN  /\ IF current_format.font_size # settings.font_size
               THEN SizeTag(Str(current_format.font_size)) \in typed
               ELSE SizeTags(typed) = SizeTags(there)
            /\ IF current_format.font_family # settings.font_family
               THEN FamilyTag(current_format.font_family) \in typed
               ELSE FamilyTags(typed) = FamilyTags(there)]_vars

\* a character was typed with a size other than the default and carries it
TypedWithOtherSize ==
    /\ last.op = "type_char"
    /\ current_format.font_size # settings.font_size
    /\ SizeTag(Str(current_format.font_size)) \in StylesAt(text_area, last.x)
    /\ current_format.font_family = settings.font_family
    /\ FamilyTags(StylesAt(text_area, last.x)) = {}

\* C14: without a selection change_font_size(n) / change_font_family(f)
\* make n / f the default in settings, in memory and in the store, and tag
\* nothing; with a selection [s, e) they tag exactly [s, e) and leave the
\* default alone.
DefaultOrRange ==
    [][/\ last'.op = "change_font_size" =>
            IF last'.t = "cursor"
            THEN /\ settings'.font_size = current_format'.font_size
                 /\ get_settings(db_settings').font_size = current_format'.font_size
                 /\ text_area' = text_area
            ELSE /\ settings' = settings /\ db_settings' = db_settings
                 /\ \A k \in 0..(Len(text_area) - 1) :
                      IF last'.x <= k /\ k < last'.y
                      THEN SizeTag(Str(current_format'.font_size))
                               \in StylesAt(text_area', k)
                      ELSE StylesAt(text_area', k) = StylesAt(text_area, k)
       /\ last'.op = "change_font_family" =>
            IF last'.t = "cursor"
            THEN /\ settings'.font_family = current_format'.font_family
                 /\ get_settings(db_settings').font_family = current_format'.font_family
                 /\ text_area' = text_area
            ELSE /\ settings' = settings /\ db_settings' = db_settings
                 /\ \A k \in 0..(Len(text_area) - 1) :
                      IF last'.x <= k /\ k < last'.y
                      THEN FamilyTag(current_format'.font_family)
                               \in StylesAt(text_area', k)
                      ELSE StylesAt(text_area', k) = StylesAt(text_area, k)]_vars

(***************************************************************************)
(* Loading stored rows.                                                    *)
(***************************************************************************)
\* the row of the current document
CurrentRow == notes[current_note_id]

\* the text of the widget without the widget's own final newline
TextBody(buf) == TkGet(buf, 0, Len(buf) - 1)

\* the formatting column is not a JSON object of lists of index pairs
Corrupt(col) ==
    \/ ~col.json
    \/ \E f \in {"bold", "italic", "underline"} :
          \E n \in 1..Len(col.dict[f]) : ~WellFormed(col.dict[f][n])

\* C15: a row whose formatting column is not JSON, or is malformed part-way
\* through, loads with its text intact and with no style on any offset.
CorruptFormattingLoadsPlain ==
    (Loaded /\ Corrupt(CurrentRow.formatting)) =>
        /\ TextBody(text_area) = CurrentRow.content
        /\ \A k \in 0..(Len(text_area) - 1) : StylesAt(text_area, k) = {}

\* a stored text as items, to search it as the widget is searched
AsItems(content) == [i \in 1..Len(content) |-> Item(content[i], {})]

\* the offsets of a text at which the marker of one of the keys begins
MarkerOffsets(content, keys) ==
    {q \in 0..(Len(content) - 1) :
        \E key \in keys : MatchAt(AsItems(content), q, Marker(key))}

\* the current document was loaded from a row whose images column was read
LoadedWithImages == Loaded /\ CurrentRow.images.json

\* C16: after a load every occurrence in the stored content of the marker
\* of a stored image, repeated and adjacent occurrences included, is shown
\* as an image.
EveryMarkerResolved ==
    LoadedWithImages =>
        ImagesShown(text_area)
            = Cardinality(MarkerOffsets(CurrentRow.content,
                                        DictKeys(CurrentRow.images.items)))

\* the content a save that follows at once writes to the row
SavedAtOnce == save_note(App, SaveDialog).notes[current_note_id].content

\* C17: after a load the markers of the stored content are still in the
\* text, and a save that follows at once writes content that has them.
MarkersStayAfterLoad ==
    LoadedWithImages =>
        \A key \in DictKeys(CurrentRow.images.items) :
            MarkerOffsets(CurrentRow.content, {key}) # {} =>
                /\ MarkerOffsets(GetAll(text_area), {key}) # {}
                /\ MarkerOffsets(SavedAtOnce, {key}) # {}

(***************************************************************************)
(* Stored images, tabs and deletion.                                       *)
(***************************************************************************)
\* C18: every blob in the images store is at most 500 wide, whether it came
\* from a file or from the clipboard.
StoredImagesFit ==
    \A n \in 1..Len(images_data) : B64Decode(images_data[n].v).w <= MaxWidth

\* C19: the document of the active tab A, unsaved edits included, is what
\* the editor shows after another tab B is activated and then A again.
TabKeepsItsDocument ==
    active_tab \in tab_references =>
        \A other \in tab_references \ {active_tab} :
            activate_tab(activate_tab(App, other), active_tab).text_area
                = text_area

\* C20: delete_note without a current note changes no row, no tab and not
\* the text; a confirmed delete_note of a stored note removes that row and
\* no other, removes the note from open_notes, and leaves current_note_id
\* different from the deleted id.
DeleteOnlyWhenSaved ==
    [][last'.op = "delete_note" =>
        /\ current_note_id = None =>
              /\ notes' = notes
              /\ text_area' = text_area
              /\ open_notes' = open_notes
              /\ tab_references' = tab_references
        /\ (last'.x = 1 /\ HasNote(notes, current_note_id)) =>
              /\ DOMAIN notes' = DOMAIN notes \ {current_note_id}
              /\ \A i \in DOMAIN notes' : notes'[i] = notes[i]
              /\ \A n \in 1..Len(open_notes') : open_notes'[n][1] # current_note_id
              /\ current_note_id' # current_note_id]_vars

\* a stored note was deleted while another tab was open, which took over
DeletedWithOtherTabOpen ==
    /\ last.op = "delete_note"
    /\ last.x = 1
    /\ last.y # None
    /\ ~HasNote(notes, last.y)
    /\ DOMAIN notes # {}
    /\ open_notes # <<>>
    /\ HasNote(notes, current_note_id)

(***************************************************************************)
(* The listings.                                                           *)
(***************************************************************************)
\* C21: get_notes_from_db lists exactly the stored rows, latest updated_at
\* first; get_recent_notes_from_db(limit) is the first min(limit, rows)
\* entries of the same order; the row a save wrote is first.
ListingsNewestFirst ==
    /\ [](LET all == get_notes_from_db(notes)
          IN  /\ {all[n][1] : n \in 1..Len(all)} = DOMAIN notes
              /\ Len(all) = Cardinality(DOMAIN notes)
              /\ \A n \in 1..Len(all) : all[n][2] = notes[all[n][1]].title
              /\ \A n \in 1..(Len(all) - 1) :
                    notes[all[n][1]].updated_at > notes[all[n + 1][1]].updated_at
              /\ \A limit \in {1, 2, 6} :
                    LET recent == get_recent_notes_from_db(notes, limit)
                    IN  /\ Len(recent) = Min(limit, Len(all))
                        /\ \A n \in 1..Len(recent) :
                              recent[n] = <<all[n][1], all[n][2],
                                            notes[all[n][1]].updated_at>>)
    /\ [][(SavePasses /\ (current_note_id = None \/ HasNote(notes, current_note_id))) =>
            get_notes_from_db(notes')[1][1] = SavedRow]_vars

\* an older stored note was saved again and is now listed before the others
ResavedListedFirst ==
    /\ last.op = "save_note"
    /\ last.y # None
    /\ HasNote(notes, last.y)
    /\ notes[last.y].title = last.t
    /\ Len(get_notes_from_db(notes)) > 6
    /\ get_notes_from_db(notes)[1][1] = last.y
    /\ \E i \in DOMAIN notes : i > last.y

(***************************************************************************)
(* The order of the formatting load.                                       *)
(***************************************************************************)
\* the tag_add calls of the load that has just happened, on the widget as
\* the formatting block found it: without any tag
LoadCalls ==
    FormattingBlock([n \in 1..Len(text_area) |-> Item(text_area[n].ch, {})],
                    CurrentRow.formatting.dict).calls

\* the row just loaded has a formatting object to apply
LoadedFormatting ==
    /\ Loaded
    /\ CurrentRow.formatting.json
    /\ FormattingPresent(CurrentRow.formatting)

\* C22: a load adds the bold, italic and underline ranges first, then the
\* font_size ranges, then the font_family ranges: no call for a kind comes
\* after a call for a later kind, and when the load stops at an entry the
\* widget holds every tag added before it and no tag of a later kind.
FormattingLoadOrder ==
    LoadedFormatting =>
        LET calls == LoadCalls
            \* the place of a tag in the order bold, italic, underline,
            \* size, family
            KindRank(tag) ==
                CASE tag = Bold           -> 1
                  [] tag = Italic         -> 2
                  [] tag = Underline      -> 3
                  [] tag.kind = "size_"   -> 4
                  [] tag.kind = "family_" -> 5
                  [] OTHER                -> 0
        IN  /\ \A m, n \in 1..Len(calls) :
                  m < n => /\ KindRank(calls[m]) > 0
                           /\ KindRank(calls[m]) <= KindRank(calls[n])
            /\ \A n \in 1..Len(calls) :
                  \E k \in 0..(Len(text_area) - 1) : calls[n] \in text_area[k + 1].tags
            /\ \A k \in 0..(Len(text_area) - 1) :
                  \A tag \in text_area[k + 1].tags :
                     \E n \in 1..Len(calls) : calls[n] = tag

\* a load stopped at the second entry of a size: the widget holds the bold,
\* italic, underline and first size ranges, and no family range
LoadStoppedAtSize ==
    /\ LoadedFormatting
    /\ CurrentRow.formatting = BrokenSizeFormatting
    /\ LoadCalls = <<Bold, Italic, Underline, SizeTag(Str(18))>>
    /\ StylesAt(text_area, 0) = {Bold, Italic, SizeTag(Str(18))}
    /\ StylesAt(text_area, 1) = {Italic, Underline}

(***************************************************************************)
(* The settings table.                                                     *)
(***************************************************************************)
\* C23: once create_tables has run the settings table holds exactly one
\* row, with id 1, whatever is called afterwards; get_settings() after
\* save_settings(s) then returns s; get_settings() returns dark, Arial, 12
\* while row 1 is absent.
SettingsSingleton ==
    /\ [](DOMAIN db_settings \subseteq {1})
    /\ [][/\ last'.op = "create_tables" => DOMAIN db_settings' = {1}
          /\ DOMAIN db_settings = {1} => DOMAIN db_settings' = {1}
          /\ (last'.op = "save_settings" /\ DOMAIN db_settings = {1}) =>
                get_settings(db_settings') = SettingsValues[last'.x]
          /\ (last'.op = "toggle_theme" /\ DOMAIN db_settings = {1}) =>
                get_settings(db_settings') = settings'
          /\ (last'.op = "get_settings" /\ 1 \notin DOMAIN db_settings) =>
                settings' = [theme |-> "dark", font_family |-> Arial,
                             font_size |-> 12]]_vars

\* settings other than the defaults were saved in the row and then
\* read back
SavedSettingsReadBack ==
    /\ last.op = "get_settings"
    /\ steps = 4
    /\ DOMAIN db_settings = {1}
    /\ settings = [theme |-> "light", font_family |-> Courier, font_size |-> 18]

(***************************************************************************)
(* Style ranges under deletions and insertions.                            *)
(***************************************************************************)
\* C24: every style range lies within the text, start <= end <= len(text),
\* in every reachable state; a deletion of [a, b) leaves the styles of the
\* characters outside [a, b) on them, so that ranges are clipped to the
\* surviving text.
RangesClipped ==
    /\ [](LET content == AsItems(GetAll(text_area))
              fmt     == save_formatting_data(text_area)
              list(r) == {r[n] : n \in 1..Len(r)}
              \* every (start, end) pair the save writes for the widget
              saved   ==
                  list(fmt.bold) \cup list(fmt.italic) \cup list(fmt.underline)
                  \cup UNION {list(fmt.font_size[n].v) : n \in 1..Len(fmt.font_size)}
                  \cup UNION {list(fmt.font_family[n].v) : n \in 1..Len(fmt.font_family)}
              \* the index is the index of a position of the text
              InText(idx) == TkIndex(content, TkOffset(content, idx)) = idx
          IN  \A r \in saved :
                 /\ InText(r[1])
                 /\ InText(r[2])
                 /\ TkOffset(content, r[1]) <= TkOffset(content, r[2])
                 /\ TkOffset(content, r[2]) <= Len(content))
    /\ [][last'.op = "delete_text" =>
            /\ Len(text_area') = Len(text_area) - (last'.y - last'.x)
            /\ \A k \in 0..(Len(text_area') - 1) :
                  StylesAt(text_area, IF k < last'.x THEN k
                                      ELSE k + (last'.y - last'.x))
                      \subseteq StylesAt(text_area', k)]_vars

\* no toggle is on and the size and family are the defaults
Disarmed ==
    /\ ~current_format.bold /\ ~current_format.italic /\ ~current_format.underline
    /\ current_format.font_size = settings.font_size
    /\ current_format.font_family = settings.font_family

\* C25: with all toggles off and size and family at their defaults,
\* inserting n characters at offset k moves every style range with
\* start >= k right by n, lengthens by n every range with start < k < end
\* and leaves every range with end <= k as it was.
RangesShifted ==
    [][(last'.op \in {"type_char", "paste_text"} /\ Disarmed) =>
          LET k == last'.x
              n == last'.y
              \* a range after n items were inserted at k with no tag added
              Shifted(range) ==
                  IF range[1] >= k THEN <<range[1] + n, range[2] + n>>
                  ELSE IF range[2] > k THEN <<range[1], range[2] + n>>
                  ELSE range
          IN  \A tag \in UNION {text_area[m].tags : m \in 1..Len(text_area)}
                        \cup UNION {text_area'[m].tags : m \in 1..Len(text_area')} :
                 LET before == TkTagRanges(text_area, tag)
                     after  == TkTagRanges(text_area', tag)
                 IN  after = [m \in 1..Len(before) |-> Shifted(before[m])]]_vars

\* two characters were pasted between the two characters of the opened
\* note: the bold range stays, the italic range is longer and the underline
\* range has moved
PastedInsideRanges ==
    /\ last.op = "paste_text"
    /\ last.x = 1
    /\ Disarmed
    /\ TkTagRanges(text_area, Bold) = << <<0, 1>> >>
    /\ TkTagRanges(text_area, Italic) = << <<0, 4>> >>
    /\ TkTagRanges(text_area, Underline) = << <<3, 4>> >>

\* C26: a deletion adds no styling, whatever toggle, size or family is
\* armed: every surviving character has the same set of styles after the
\* deletion as before it.
DeletionAddsNoStyle ==
    [][last'.op = "delete_text" =>
          \A k \in 0..(Len(text_area') - 1) :
             StylesAt(text_area', k) =
                StylesAt(text_area, IF k < last'.x THEN k
                                    ELSE k + (last'.y - last'.x))]_vars

(***************************************************************************)
(* Tabs.                                                                   *)
(***************************************************************************)
\* C27: after a tab is activated the editor holds that tab's note: for a
\* stored note the row's text, images and formatting; for the unsaved tab
\* (id None), or a tab whose id has no row, an empty document and no text
\* of another note.
ActivatedTabShowsItsNote ==
    last.op = "activate_tab" =>
        /\ active_tab = last.x
        /\ current_note_id = last.x
        /\ IF HasNote(notes, last.x)
           THEN LET row == notes[last.x]
                IN  /\ ~ImagesPresent(row.images) =>
                          TextBody(text_area) = row.content
                    /\ row.images.json => images_data = row.images.items
                    /\ row.formatting.json => formatting_data = row.formatting.dict
           ELSE /\ text_area = EmptyText
                /\ images_data = <<>>
                /\ formatting_data = NoFormatting

\* C28: the first successful save of a new note replaces its "Untitled"
\* tab: afterwards open_notes has an entry with the note's new id and the
\* entered title, and no entry with id None.
UntitledTabReplaced ==
    [][(SavePasses /\ current_note_id = None /\ None \in TabIds(App)) =>
          /\ \E i \in 1..Len(open_notes') :
                open_notes'[i] = <<current_note_id', SaveDialog.text>>
          /\ None \notin {open_notes'[i][1] : i \in 1..Len(open_notes')}]_vars

\* C29: after each of new_note, open_note_in_tab, activate_tab, close_tab,
\* save_note and delete_note the active tab is the current note, no id
\* occurs twice in open_notes, and tab_references has exactly the ids of
\* open_notes as its keys.
TabBookkeeping ==
    last.op \in {"new_note", "open_note_in_tab", "activate_tab", "close_tab",
                 "save_note", "delete_note"} =>
        /\ active_tab = current_note_id
        /\ \A i, j \in 1..Len(open_notes) :
              open_notes[i][1] = open_notes[j][1] => i = j
        /\ tab_references = TabIds(App)

\* the active one of three tabs was closed and the first of the two that
\* are left became the active tab and the current note
ClosedActiveTab ==
    /\ last.op = "close_tab"
    /\ last.x \notin TabIds(App)
    /\ Len(open_notes) = 2
    /\ open_notes[1][1] # open_notes[2][1]
    /\ active_tab = open_notes[1][1]
    /\ current_note_id = active_tab
    /\ tab_references = TabIds(App)

(***************************************************************************)
(* One size and one family on a selection.                                 *)
(***************************************************************************)
\* C30: after change_font_size(n) on a selection [s, e) every offset of
\* [s, e) carries the size n and no other size; after
\* change_font_family(f) every offset of [s, e) carries the family f and no
\* other family.
OneSizeOneFamily ==
    [][/\ (last'.op = "change_font_size" /\ last'.t = "selection") =>
             \A k \in last'.x..(last'.y - 1) :
                SizeTags(StylesAt(text_area', k))
                    = {SizeTag(Str(current_format'.font_size))}
       /\ (last'.op = "change_font_family" /\ last'.t = "selection") =>
             \A k \in last'.x..(last'.y - 1) :
                FamilyTags(StylesAt(text_area', k))
                    = {FamilyTag(current_format'.font_family)}]_vars

====
